---- MODULE Spec2Model ----
(***************************************************************************)
(* Model of scripts/run_regression.py: the regression manager that         *)
(* compiles the SoC once (iverilog), runs every configured test (vvp),     *)
(* archives each test's captured output, classifies it by text markers     *)
(* and prints a summary with an overall banner.                            *)
(*                                                                         *)
(* main() is one sequential function.  It is cut into one action per       *)
(* interaction with the outside world: a process is spawned, a process     *)
(* terminates, a file is written, the summary is printed.                  *)
(***************************************************************************)
EXTENDS Integers, Sequences, FiniteSets, TLC

\* ------------------------------------------------------------------------
\* Bounds of the model
\* ------------------------------------------------------------------------

\* Longest configured scenario list explored.
MaxTests == 2

\* Longest compile-unit list explored by the command-construction check.
MaxUnits == 2

\* ------------------------------------------------------------------------
\* Configuration and literals of the script
\* ------------------------------------------------------------------------

\* Identifiers the configured list is drawn from (two of TEST_CASES).
SCENARIO_IDS == {"DMA_TEST", "CRC_TEST"}

\* The list as the script configures it.
SOURCE_COMPILE_ORDER ==
    << "rtl/on_chip_ram.v", "rtl/crc32_accelerator.v", "rtl/timer.v",
       "rtl/uart_tx.v", "rtl/uart_rx.v", "rtl/uart_top.v",
       "rtl/address_decoder.v", "rtl/arbiter.v",
       "rtl/interrupt_controller.v", "rtl/dma_engine.v", "rtl/simple_cpu.v",
       "rtl/risc_soc.sv", "tb/tb_risc_soc.sv" >>

\* The configured compile-unit list, fixed for the whole run.
VARIABLE COMPILE_ORDER

\* Variant of JoinFrom: " ".join(dict.fromkeys(xs)), a unit listed twice is
\* passed once.
RECURSIVE JoinFrom_Dedup(_, _)
JoinFrom_Dedup(xs, k) ==
    IF k > Len(xs) THEN ""
    ELSE IF \E m \in 1..(k - 1) : xs[m] = xs[k] THEN JoinFrom_Dedup(xs, k + 1)
    ELSE IF k = Len(xs) THEN xs[k]
    ELSE xs[k] \o " " \o JoinFrom_Dedup(xs, k + 1)

\* " ".join(xs)
RECURSIVE JoinFrom(_, _)
JoinFrom(xs, k) ==
    IF k > Len(xs) THEN ""
    ELSE IF k = Len(xs) THEN xs[k]
    ELSE xs[k] \o " " \o JoinFrom(xs, k + 1)

COMPILE_FILES_STR == JoinFrom(COMPILE_ORDER, 1)

IV_COMPILE_CMD == "iverilog -g2005-sv -o soc_sim " \o COMPILE_FILES_STR

\* f"vvp soc_sim +TESTNAME={test}"
RunCmd(test) == "vvp soc_sim +TESTNAME=" \o test

\* f"log_{test}.txt"
LogName(test) == "log_" \o test \o ".txt"

\* Width of the name column of the summary table ({test:<20}).
NAME_WIDTH == 20

\* f"{s:<20}": pad with spaces on the right up to the width, never truncate.
RECURSIVE PadRight(_, _)
PadRight(s, w) == IF Len(s) >= w THEN s ELSE PadRight(s \o " ", w)

RULE == "======================================="
DASHES == "---------------------------------------"
START_BANNER == "=== Starting RISC-V SoC Regression ==="
COMPILE_HEADER == "\n--- Compiling the design using explicit order ---"
COMPILE_OK_MSG == "Compilation successful."
COMPILE_FAILED_MSG == "[ERROR] Compilation failed!"
SUMMARY_HEADER == "=== Regression Summary ==="
SUCCESS_BANNER == ">>> ALL TESTS PASSED! Regression successful. <<<"
FAILURE_BANNER == ">>> REGRESSION FAILED! Check logs for details. <<<"
STATUS_PASSED == "[STATUS] PASSED"
STATUS_FAILED == "[STATUS] FAILED"
STATUS_UNKNOWN == "[STATUS] UNKNOWN - Could not determine pass/fail."

RunningMsg(test) == "\n--- Running Test: " \o test \o " ---"
CrashMsg(test) == "[ERROR] Simulation crashed for test: " \o test
SummaryLine(test, result) ==
    "  " \o PadRight(test, NAME_WIDTH) \o " : " \o result

\* ------------------------------------------------------------------------
\* Python primitives used by the script
\* ------------------------------------------------------------------------

\* `m in t` on strings: m occurs in t as a contiguous substring.
In(m, t) ==
    \E k \in 1..(Len(t) - Len(m) + 1) : SubSeq(t, k, k + Len(m) - 1) = m

\* dict as a sequence of <<key, value>> pairs in insertion order.
HasKey(d, k) == \E j \in DOMAIN d : d[j][1] = k

DictGet(d, k) == d[CHOOSE j \in DOMAIN d : d[j][1] = k][2]

\* Variant of DictSet: d.setdefault(k, v), the first value of a key is kept.
DictSet_KeepFirst(d, k, v) ==
    IF \E j \in DOMAIN d : d[j][1] = k THEN d ELSE Append(d, <<k, v>>)

\* Variant of DictSet: results = {k: v}, the dict is rebound and earlier
\* entries are lost.
DictSet_Rebinds(d, k, v) == << <<k, v>> >>

\* d[k] = v: a new key is appended, an existing key keeps its position.
DictSet(d, k, v) ==
    IF HasKey(d, k)
    THEN [j \in DOMAIN d |-> IF d[j][1] = k THEN <<k, v>> ELSE d[j]]
    ELSE Append(d, <<k, v>>)

\* Variant of WriteFile: the file is opened with mode "a", the text is added
\* to what the file held.
WriteFile_Append(fs, name, text) ==
    [n \in DOMAIN fs \cup {name} |->
        IF n = name
        THEN (IF name \in DOMAIN fs THEN fs[name] \o text ELSE text)
        ELSE fs[n]]

\* open(name, "w").write(text): the file is created or replaced.
WriteFile(fs, name, text) ==
    [n \in DOMAIN fs \cup {name} |-> IF n = name THEN text ELSE fs[n]]

\* ------------------------------------------------------------------------
\* The outside world: what the external tools may do
\* ------------------------------------------------------------------------

\* Outcomes of `iverilog`: exit status and error stream.
COMPILE_BEHAVIOURS ==
    { [rc |-> 0, out |-> "", err |-> ""],
      [rc |-> 1, out |-> "",
       err |-> "tb/tb_risc_soc.sv:10: syntax error\n"],
      [rc |-> 127, out |-> "",
       err |-> "/bin/sh: 1: iverilog: not found\n"] }

\* Outcomes of one `vvp` run: exit status, standard output, error stream.
SIM_BEHAVIOURS ==
    { [rc |-> 0, out |-> "Test Successful\n", err |-> ""],
      [rc |-> 0,
       out |-> "All Transactions PASSED\nTEST FAILED: mismatch at addr 0x10\n",
       err |-> ""],
      [rc |-> 0, out |-> "TEST FAILED: mismatch at addr 0x10\n", err |-> ""],
      [rc |-> 0, out |-> "ERROR_CODE=0\n", err |-> ""],
      [rc |-> 0, out |-> "test successful\n", err |-> ""],
      [rc |-> 0, out |-> "", err |-> "Test Successful\n"],
      [rc |-> 1, out |-> "Test Successful\n", err |-> ""],
      [rc |-> 127, out |-> "", err |-> "/bin/sh: 1: vvp: not found\n"] }

\* Content of an artifact left in the directory by an earlier run.
STALE_LOG == "Test Successful\n"

\* How the archive step can fail: open() raises, or the write raises after
\* open() has truncated the file.
WRITE_FAILURES == {"open", "write"}

\* ------------------------------------------------------------------------
\* State
\* ------------------------------------------------------------------------

VARIABLES
    TEST_CASES,   \* the configured scenario list
    pc,           \* where main() stands
    i,            \* 1-based position of the for loop in TEST_CASES
    procs,        \* every external process of this run, in spawn order
    sim_output,   \* the text check_output returned
    results,      \* the results dict
    all_passed,   \* the flag computed by the summary loop
    files,        \* the directory: file name -> content
    files0,       \* the directory as it was when the run started
    written,      \* file writes of this run, in order
    console,      \* lines printed on standard output
    exc,          \* exception that escaped main(), "" if none
    exit_code     \* <<>> while running, <<status>> once exited

vars == << TEST_CASES, COMPILE_ORDER, pc, i, procs, sim_output, results, all_passed,
           files, files0, written, console, exc, exit_code >>

\* All lists over SCENARIO_IDS of length at most n.
RECURSIVE ListsUpTo(_)
ListsUpTo(n) ==
    IF n = 0 THEN {<< >>}
    ELSE LET shorter == ListsUpTo(n - 1)
         IN shorter \cup
            {Append(s, t) : s \in {x \in shorter : Len(x) = n - 1},
                            t \in SCENARIO_IDS}

\* Directories the run may start in: any of the artifacts may be left over.
InitialDirs ==
    { [n \in {LogName(t) : t \in ids} |-> STALE_LOG] :
        ids \in SUBSET SCENARIO_IDS }

Init ==
    /\ TEST_CASES \in ListsUpTo(MaxTests)
    /\ COMPILE_ORDER = SOURCE_COMPILE_ORDER
    /\ pc = "start"
    /\ i = 1
    /\ procs = << >>
    /\ sim_output = ""
    /\ results = << >>
    /\ all_passed = TRUE
    /\ files \in InitialDirs
    /\ files0 = files
    /\ written = << >>
    /\ console = << >>
    /\ exc = ""
    /\ exit_code = << >>

\* ------------------------------------------------------------------------
\* Process bookkeeping
\* ------------------------------------------------------------------------

Spawn(cmd) ==
    Append(procs, [cmd |-> cmd, st |-> "running", rc |-> 0,
                   out |-> "", err |-> ""])

Terminate(b) ==
    [procs EXCEPT ![Len(procs)] =
        [cmd |-> procs[Len(procs)].cmd, st |-> "exited", rc |-> b.rc,
         out |-> b.out, err |-> b.err]]

\* ------------------------------------------------------------------------
\* Actions
\* ------------------------------------------------------------------------

\* main() up to the call of subprocess.run: banner, then the compile process
\* is spawned and main() blocks on it.
StartCompile ==
    /\ pc = "start"
    /\ console' = console \o << RULE, START_BANNER, RULE, COMPILE_HEADER,
                                "Compile Command: " \o IV_COMPILE_CMD >>
    /\ procs' = Spawn(IV_COMPILE_CMD)
    /\ pc' = "compiling"
    /\ UNCHANGED << TEST_CASES, COMPILE_ORDER, i, sim_output, results, all_passed, files,
                    files0, written, exc, exit_code >>

\* Variant of CompileExit: check=True left out, so no exit status raises and
\* every compile counts as successful.
CompileExit_NoCheck(b) ==
    /\ pc = "compiling"
    /\ procs' = [procs EXCEPT ![Len(procs)] =
                    [cmd |-> procs[Len(procs)].cmd, st |-> "exited",
                     rc |-> b.rc, out |-> b.out, err |-> b.err]]
    /\ console' = Append(console, COMPILE_OK_MSG)
    /\ results' = << >>
    /\ pc' = "loop"
    /\ i' = 1
    /\ UNCHANGED << TEST_CASES, COMPILE_ORDER, sim_output, all_passed, files, files0,
                    written, exc, exit_code >>

\* Variant of CompileExit: the except block reports the failure but has no
\* `return`, so main() goes on into the loop.
CompileExit_NoReturn(b) ==
    /\ pc = "compiling"
    /\ procs' = [procs EXCEPT ![Len(procs)] =
                    [cmd |-> procs[Len(procs)].cmd, st |-> "exited",
                     rc |-> b.rc, out |-> b.out, err |-> b.err]]
    /\ console' = IF b.rc = 0 THEN Append(console, COMPILE_OK_MSG)
                  ELSE console \o << COMPILE_FAILED_MSG, b.err >>
    /\ results' = << >>
    /\ pc' = "loop"
    /\ i' = 1
    /\ UNCHANGED << TEST_CASES, COMPILE_ORDER, sim_output, all_passed, files, files0,
                    written, exc, exit_code >>

\* Variant of CompileExit: the except block prints e.stdout, not e.stderr.
CompileExit_PrintsStdout(b) ==
    /\ pc = "compiling"
    /\ procs' = [procs EXCEPT ![Len(procs)] =
                    [cmd |-> procs[Len(procs)].cmd, st |-> "exited",
                     rc |-> b.rc, out |-> b.out, err |-> b.err]]
    /\ IF b.rc = 0
       THEN /\ console' = Append(console, COMPILE_OK_MSG)
            /\ results' = << >>
            /\ pc' = "loop"
            /\ i' = 1
            /\ exit_code' = exit_code
       ELSE /\ console' = console \o << COMPILE_FAILED_MSG, b.out >>
            /\ results' = results
            /\ pc' = "compile_failed"
            /\ i' = i
            /\ exit_code' = << 0 >>
    /\ UNCHANGED << TEST_CASES, COMPILE_ORDER, sim_output, all_passed, files, files0,
                    written, exc >>

\* subprocess.run returns (check=True): exit status zero falls through to
\* the loop, non-zero raises CalledProcessError, which is reported and
\* main() returns.
CompileExit(b) ==
    /\ pc = "compiling"
    /\ procs' = Terminate(b)
    /\ IF b.rc = 0
       THEN /\ console' = Append(console, COMPILE_OK_MSG)
            /\ results' = << >>
            /\ pc' = "loop"
            /\ i' = 1
            /\ exit_code' = exit_code
       ELSE /\ console' = console \o << COMPILE_FAILED_MSG, b.err >>
            /\ results' = results
            /\ pc' = "compile_failed"
            /\ i' = i
            /\ exit_code' = << 0 >>
    /\ UNCHANGED << TEST_CASES, COMPILE_ORDER, sim_output, all_passed, files, files0,
                    written, exc >>

\* Variant of SpawnTest: the process is started with Popen and not waited
\* for, the loop goes on to the next entry at once.
SpawnTest_NoWait ==
    /\ pc = "loop"
    /\ i <= Len(TEST_CASES)
    /\ console' = Append(console, RunningMsg(TEST_CASES[i]))
    /\ procs' = Append(procs, [cmd |-> RunCmd(TEST_CASES[i]),
                               st |-> "running", rc |-> 0,
                               out |-> "", err |-> ""])
    /\ i' = i + 1
    /\ pc' = "loop"
    /\ UNCHANGED << TEST_CASES, COMPILE_ORDER, sim_output, results, all_passed, files,
                    files0, written, exc, exit_code >>

\* Head of one iteration of `for test in TEST_CASES`: progress line, command
\* built, process spawned by check_output.
SpawnTest ==
    /\ pc = "loop"
    /\ i <= Len(TEST_CASES)
    /\ console' = Append(console, RunningMsg(TEST_CASES[i]))
    /\ procs' = Spawn(RunCmd(TEST_CASES[i]))
    /\ pc' = "running"
    /\ UNCHANGED << TEST_CASES, COMPILE_ORDER, i, sim_output, results, all_passed, files,
                    files0, written, exc, exit_code >>

\* Variant of SimExit: the exit status is ignored, the text of a crashed
\* process is archived and classified like any other.
SimExit_IgnoresStatus(b) ==
    /\ pc = "running"
    /\ procs' = [procs EXCEPT ![Len(procs)] =
                    [cmd |-> procs[Len(procs)].cmd, st |-> "exited",
                     rc |-> b.rc, out |-> b.out, err |-> b.err]]
    /\ sim_output' = b.out
    /\ pc' = "archive"
    /\ UNCHANGED << TEST_CASES, COMPILE_ORDER, i, results, all_passed, files, files0,
                    written, console, exc, exit_code >>

\* Variant of SimExit: CalledProcessError is not caught inside the loop, a
\* crashed scenario ends the run.
SimExit_CrashEscapes(b) ==
    /\ pc = "running"
    /\ procs' = [procs EXCEPT ![Len(procs)] =
                    [cmd |-> procs[Len(procs)].cmd, st |-> "exited",
                     rc |-> b.rc, out |-> b.out, err |-> b.err]]
    /\ IF b.rc = 0
       THEN /\ sim_output' = b.out
            /\ pc' = "archive"
            /\ UNCHANGED << exc, exit_code >>
       ELSE /\ exc' = "CalledProcessError"
            /\ exit_code' = << 1 >>
            /\ pc' = "aborted"
            /\ UNCHANGED sim_output
    /\ UNCHANGED << TEST_CASES, COMPILE_ORDER, i, results, all_passed, files, files0,
                    written, console >>

\* Variant of SimExit: check_output is given stderr=subprocess.STDOUT, the
\* error stream is captured together with standard output.
SimExit_MergesStderr(b) ==
    /\ pc = "running"
    /\ procs' = [procs EXCEPT ![Len(procs)] =
                    [cmd |-> procs[Len(procs)].cmd, st |-> "exited",
                     rc |-> b.rc, out |-> b.out, err |-> b.err]]
    /\ IF b.rc = 0
       THEN /\ sim_output' = b.out \o b.err
            /\ pc' = "archive"
            /\ UNCHANGED << console, results, i >>
       ELSE /\ console' = Append(console, CrashMsg(TEST_CASES[i]))
            /\ results' = DictSet(results, TEST_CASES[i], "CRASH")
            /\ i' = i + 1
            /\ pc' = "loop"
            /\ UNCHANGED sim_output
    /\ UNCHANGED << TEST_CASES, COMPILE_ORDER, all_passed, files, files0, written, exc,
                    exit_code >>

\* Variant of SimExit: exit status 127 (command not found) is told apart
\* from the other non-zero statuses and recorded under its own label.
SimExit_Distinguishes127(b) ==
    /\ pc = "running"
    /\ procs' = [procs EXCEPT ![Len(procs)] =
                    [cmd |-> procs[Len(procs)].cmd, st |-> "exited",
                     rc |-> b.rc, out |-> b.out, err |-> b.err]]
    /\ IF b.rc = 0
       THEN /\ sim_output' = b.out
            /\ pc' = "archive"
            /\ UNCHANGED << console, results, i >>
       ELSE /\ console' = Append(console, CrashMsg(TEST_CASES[i]))
            /\ results' = DictSet(results, TEST_CASES[i],
                                  IF b.rc = 127 THEN "NOT_RUN" ELSE "CRASH")
            /\ i' = i + 1
            /\ pc' = "loop"
            /\ UNCHANGED sim_output
    /\ UNCHANGED << TEST_CASES, COMPILE_ORDER, all_passed, files, files0, written, exc,
                    exit_code >>

\* Variant of SimExit: a scenario that crashes on its first attempt is run
\* a second time before CRASH is recorded.
SimExit_RetriesCrash(b) ==
    /\ pc = "running"
    /\ procs' = [procs EXCEPT ![Len(procs)] =
                    [cmd |-> procs[Len(procs)].cmd, st |-> "exited",
                     rc |-> b.rc, out |-> b.out, err |-> b.err]]
    /\ IF b.rc = 0
       THEN /\ sim_output' = b.out
            /\ pc' = "archive"
            /\ UNCHANGED << console, results, i >>
       ELSE IF Len(procs) = i + 1
       THEN /\ pc' = "loop"
            /\ UNCHANGED << console, results, i, sim_output >>
       ELSE /\ console' = Append(console, CrashMsg(TEST_CASES[i]))
            /\ results' = DictSet(results, TEST_CASES[i], "CRASH")
            /\ i' = i + 1
            /\ pc' = "loop"
            /\ UNCHANGED sim_output
    /\ UNCHANGED << TEST_CASES, COMPILE_ORDER, all_passed, files, files0, written, exc,
                    exit_code >>

\* check_output returns: exit status zero hands back standard output;
\* non-zero raises CalledProcessError, handled by recording CRASH.
SimExit(b) ==
    /\ pc = "running"
    /\ procs' = Terminate(b)
    /\ IF b.rc = 0
       THEN /\ sim_output' = b.out
            /\ pc' = "archive"
            /\ UNCHANGED << console, results, i >>
       ELSE /\ console' = Append(console, CrashMsg(TEST_CASES[i]))
            /\ results' = DictSet(results, TEST_CASES[i], "CRASH")
            /\ i' = i + 1
            /\ pc' = "loop"
            /\ UNCHANGED sim_output
    /\ UNCHANGED << TEST_CASES, COMPILE_ORDER, all_passed, files, files0, written, exc,
                    exit_code >>

\* with open(f"log_{test}.txt", "w") as f: f.write(sim_output)
WriteLog ==
    /\ pc = "archive"
    /\ files' = WriteFile(files, LogName(TEST_CASES[i]), sim_output)
    /\ written' = Append(written, << LogName(TEST_CASES[i]), sim_output >>)
    /\ pc' = "classify"
    /\ UNCHANGED << TEST_CASES, COMPILE_ORDER, i, procs, sim_output, results, all_passed,
                    files0, console, exc, exit_code >>

\* Variant of WriteLogFails: the handler reads `except Exception:`, a failed
\* write is reported as a crash of the scenario and the loop goes on.
WriteLogFails_ReportedAsCrash(how) ==
    /\ pc = "archive"
    /\ files' = IF how = "write"
                THEN WriteFile(files, LogName(TEST_CASES[i]), "")
                ELSE files
    /\ console' = Append(console, CrashMsg(TEST_CASES[i]))
    /\ results' = DictSet(results, TEST_CASES[i], "CRASH")
    /\ i' = i + 1
    /\ pc' = "loop"
    /\ UNCHANGED << TEST_CASES, COMPILE_ORDER, procs, sim_output, all_passed,
                    files0, written, exc, exit_code >>

\* Variant of WriteLogFails: the write sits in its own try / except OSError:
\* pass, the failure is swallowed and the text is classified all the same.
WriteLogFails_Swallowed(how) ==
    /\ pc = "archive"
    /\ files' = IF how = "write"
                THEN WriteFile(files, LogName(TEST_CASES[i]), "")
                ELSE files
    /\ pc' = "classify"
    /\ UNCHANGED << TEST_CASES, COMPILE_ORDER, i, procs, sim_output, results, all_passed,
                    files0, written, console, exc, exit_code >>

\* The archive step raises OSError.  Only CalledProcessError is caught, so
\* the exception leaves the loop and main(): traceback, exit status 1.
WriteLogFails(how) ==
    /\ pc = "archive"
    /\ files' = IF how = "write"
                THEN WriteFile(files, LogName(TEST_CASES[i]), "")
                ELSE files
    /\ exc' = "OSError"
    /\ exit_code' = << 1 >>
    /\ pc' = "aborted"
    /\ UNCHANGED << TEST_CASES, COMPILE_ORDER, i, procs, sim_output, results, all_passed,
                    files0, written, console >>

\* Variant of Classify: the else branch prints the status line but does not
\* assign results[test].
Classify_UnknownNotRecorded ==
    /\ pc = "classify"
    /\ IF In("All Transactions PASSED", sim_output)
          \/ In("Test Successful", sim_output)
       THEN /\ console' = Append(console, STATUS_PASSED)
            /\ results' = DictSet(results, TEST_CASES[i], "PASS")
       ELSE IF In("TEST FAILED", sim_output) \/ In("ERROR", sim_output)
       THEN /\ console' = Append(console, STATUS_FAILED)
            /\ results' = DictSet(results, TEST_CASES[i], "FAIL")
       ELSE /\ console' = Append(console, STATUS_UNKNOWN)
            /\ results' = results
    /\ i' = i + 1
    /\ pc' = "loop"
    /\ UNCHANGED << TEST_CASES, COMPILE_ORDER, procs, sim_output, all_passed, files, files0,
                    written, exc, exit_code >>

\* Variant of Classify: the fail markers are tested before the pass markers.
Classify_FailFirst ==
    /\ pc = "classify"
    /\ IF In("TEST FAILED", sim_output) \/ In("ERROR", sim_output)
       THEN /\ console' = Append(console, STATUS_FAILED)
            /\ results' = DictSet(results, TEST_CASES[i], "FAIL")
       ELSE IF In("All Transactions PASSED", sim_output)
               \/ In("Test Successful", sim_output)
       THEN /\ console' = Append(console, STATUS_PASSED)
            /\ results' = DictSet(results, TEST_CASES[i], "PASS")
       ELSE /\ console' = Append(console, STATUS_UNKNOWN)
            /\ results' = DictSet(results, TEST_CASES[i], "UNKNOWN")
    /\ i' = i + 1
    /\ pc' = "loop"
    /\ UNCHANGED << TEST_CASES, COMPILE_ORDER, procs, sim_output, all_passed, files, files0,
                    written, exc, exit_code >>

\* The if / elif / else over the captured text.
Classify ==
    /\ pc = "classify"
    /\ IF In("All Transactions PASSED", sim_output)
          \/ In("Test Successful", sim_output)
       THEN /\ console' = Append(console, STATUS_PASSED)
            /\ results' = DictSet(results, TEST_CASES[i], "PASS")
       ELSE IF In("TEST FAILED", sim_output) \/ In("ERROR", sim_output)
       THEN /\ console' = Append(console, STATUS_FAILED)
            /\ results' = DictSet(results, TEST_CASES[i], "FAIL")
       ELSE /\ console' = Append(console, STATUS_UNKNOWN)
            /\ results' = DictSet(results, TEST_CASES[i], "UNKNOWN")
    /\ i' = i + 1
    /\ pc' = "loop"
    /\ UNCHANGED << TEST_CASES, COMPILE_ORDER, procs, sim_output, all_passed, files, files0,
                    written, exc, exit_code >>

\* Variant of AllPassedFrom: all_passed = (result == "PASS") in the loop
\* body, so the last entry alone decides.
RECURSIVE AllPassedFrom_LastWins(_, _, _)
AllPassedFrom_LastWins(d, j, flag) ==
    IF j > Len(d) THEN flag
    ELSE AllPassedFrom_LastWins(d, j + 1, d[j][2] = "PASS")

\* Variant of AllPassedFrom: only "FAIL" and "CRASH" pull the flag down.
RECURSIVE AllPassedFrom_UnknownPasses(_, _, _)
AllPassedFrom_UnknownPasses(d, j, flag) ==
    IF j > Len(d) THEN flag
    ELSE AllPassedFrom_UnknownPasses(
             d, j + 1, IF d[j][2] \in {"FAIL", "CRASH"} THEN FALSE ELSE flag)

\* The summary loop: all_passed starts True and is pulled down by every
\* result other than "PASS".
RECURSIVE AllPassedFrom(_, _, _)
AllPassedFrom(d, j, flag) ==
    IF j > Len(d) THEN flag
    ELSE AllPassedFrom(d, j + 1, IF d[j][2] # "PASS" THEN FALSE ELSE flag)

\* Variant of SummaryLines: the table is walked with reversed(results.items()),
\* the lines come out last entry first.
SummaryLines_Reversed(d) ==
    [j \in 1..Len(d) |-> SummaryLine(d[Len(d) + 1 - j][1], d[Len(d) + 1 - j][2])]

SummaryLines(d) == [j \in 1..Len(d) |-> SummaryLine(d[j][1], d[j][2])]

\* Variant of Summary: the loop is left one entry early (an off-by-one in
\* the loop bound), the last scenario may be skipped.
Summary_SkipsLast ==
    /\ pc = "loop"
    /\ i >= Len(TEST_CASES)
    /\ console' = console \o << "\n" \o RULE, SUMMARY_HEADER, RULE >>
                          \o SummaryLines(results) \o << DASHES >>
    /\ all_passed' = AllPassedFrom(results, 1, TRUE)
    /\ pc' = "banner"
    /\ UNCHANGED << TEST_CASES, COMPILE_ORDER, i, procs, sim_output, results,
                    files, files0, written, exc, exit_code >>

\* After the loop: header, one line per entry of results, separator.
Summary ==
    /\ pc = "loop"
    /\ i > Len(TEST_CASES)
    /\ console' = console \o << "\n" \o RULE, SUMMARY_HEADER, RULE >>
                          \o SummaryLines(results) \o << DASHES >>
    /\ all_passed' = AllPassedFrom(results, 1, TRUE)
    /\ pc' = "banner"
    /\ UNCHANGED << TEST_CASES, COMPILE_ORDER, i, procs, sim_output, results, files, files0,
                    written, exc, exit_code >>

\* Variant of Banner: main() ends with sys.exit(0 if all_passed else 1), the
\* exit status carries the verdict.
Banner_ExitsWithVerdict ==
    /\ pc = "banner"
    /\ console' = console \o << IF all_passed THEN SUCCESS_BANNER
                                ELSE FAILURE_BANNER, RULE >>
    /\ pc' = "done"
    /\ exit_code' = << IF all_passed THEN 0 ELSE 1 >>
    /\ UNCHANGED << TEST_CASES, COMPILE_ORDER, i, procs, sim_output, results, all_passed,
                    files, files0, written, exc >>

\* Variant of Banner: the test reads `if not all_passed`, the two banners
\* are swapped.
Banner_Inverted ==
    /\ pc = "banner"
    /\ console' = console \o << IF ~all_passed THEN SUCCESS_BANNER
                                ELSE FAILURE_BANNER, RULE >>
    /\ pc' = "done"
    /\ exit_code' = << 0 >>
    /\ UNCHANGED << TEST_CASES, COMPILE_ORDER, i, procs, sim_output, results, all_passed,
                    files, files0, written, exc >>

\* The final verdict, then main() returns and the interpreter exits.
Banner ==
    /\ pc = "banner"
    /\ console' = console \o << IF all_passed THEN SUCCESS_BANNER
                                ELSE FAILURE_BANNER, RULE >>
    /\ pc' = "done"
    /\ exit_code' = << 0 >>
    /\ UNCHANGED << TEST_CASES, COMPILE_ORDER, i, procs, sim_output, results, all_passed,
                    files, files0, written, exc >>

CompileExits == \E b \in COMPILE_BEHAVIOURS : CompileExit(b)
SimExits == \E b \in SIM_BEHAVIOURS : SimExit(b)
WriteLogRaises == \E how \in WRITE_FAILURES : WriteLogFails(how)

Next ==
    \/ StartCompile
    \/ CompileExits
    \/ SpawnTest
    \/ SimExits
    \/ WriteLog
    \/ WriteLogRaises
    \/ Classify
    \/ Summary
    \/ Banner

\* main() is a single thread of control: whenever it has a next step it
\* takes it, and every external process it waits for terminates.
Fairness == WF_vars(Next)

Spec == Init /\ [][Next]_vars

\* The run under the proviso that it keeps going.
FairSpec == Init /\ [][Next]_vars /\ Fairness

\* ------------------------------------------------------------------------
\* Command construction over arbitrary configurations
\* ------------------------------------------------------------------------

\* Paths the compile-unit lists are drawn from; one holds a space.
UNIT_PATHS == {"rtl/timer.v", "tb/tb_risc_soc.sv", "rtl/my cpu.v"}

\* Identifiers of the scenario lists; one holds a space.
CMD_SCENARIO_IDS == SCENARIO_IDS \cup {"UART LOOPBACK"}

\* All lists over UNIT_PATHS of length at most n.
RECURSIVE UnitListsUpTo(_)
UnitListsUpTo(n) ==
    IF n = 0 THEN {<< >>}
    ELSE LET shorter == UnitListsUpTo(n - 1)
         IN shorter \cup
            {Append(s, u) : s \in {x \in shorter : Len(x) = n - 1},
                            u \in UNIT_PATHS}

\* A run of the script under any configuration: any short unit list or the
\* script's own, no scenario or a single one, an empty directory.
InitCmd ==
    /\ COMPILE_ORDER \in UnitListsUpTo(MaxUnits) \cup {SOURCE_COMPILE_ORDER}
    /\ TEST_CASES \in {<< >>} \cup {<< t >> : t \in CMD_SCENARIO_IDS}
    /\ pc = "start"
    /\ i = 1
    /\ procs = << >>
    /\ sim_output = ""
    /\ results = << >>
    /\ all_passed = TRUE
    /\ files = [n \in {} |-> ""]
    /\ files0 = files
    /\ written = << >>
    /\ console = << >>
    /\ exc = ""
    /\ exit_code = << >>

SpecCmd == InitCmd /\ [][Next]_vars

\* ------------------------------------------------------------------------
\* Vocabulary of the properties
\* ------------------------------------------------------------------------

Count(seq, x) == Cardinality({k \in DOMAIN seq : seq[k] = x})

Printed(line) == \E k \in DOMAIN console : console[k] = line

IsScenarioRun(cmd) ==
    /\ Len(cmd) >= Len("vvp soc_sim +TESTNAME=")
    /\ SubSeq(cmd, 1, Len("vvp soc_sim +TESTNAME=")) = "vvp soc_sim +TESTNAME="

CompileExited == Len(procs) >= 1 /\ procs[1].st = "exited"
CompileSucceeded == CompileExited /\ procs[1].rc = 0
CompileFailedRun == CompileExited /\ procs[1].rc # 0

RunOver == exit_code # << >>

\* The process of the k-th entry of TEST_CASES (the compile is procs[1]).
ProcOf(k) == procs[k + 1]

PASS_MARKERS == {"All Transactions PASSED", "Test Successful"}
FAIL_MARKERS == {"TEST FAILED", "ERROR"}
HasPassMarker(t) == \E m \in PASS_MARKERS : In(m, t)
HasFailMarker(t) == \E m \in FAIL_MARKERS : In(m, t)

\* The ordered rule set of the Result Classifier.
RuleSet(t) ==
    CASE HasPassMarker(t) -> "PASS"
      [] ~HasPassMarker(t) /\ HasFailMarker(t) -> "FAIL"
      [] OTHER -> "UNKNOWN"

\* The Outcome of one terminated scenario process.
OutcomeOf(p) == IF p.rc # 0 THEN "CRASH" ELSE RuleSet(p.out)

\* An iteration of the loop has just been completed: entry i - 1.
IterationDone == pc = "loop" /\ i > 1

FirstIdx(id) ==
    CHOOSE k \in DOMAIN TEST_CASES :
        TEST_CASES[k] = id /\ \A m \in 1..(k - 1) : TEST_CASES[m] # id
LastIdx(id) ==
    CHOOSE k \in DOMAIN TEST_CASES :
        /\ TEST_CASES[k] = id
        /\ \A m \in (k + 1)..Len(TEST_CASES) : TEST_CASES[m] # id

NoSummaryPrinted ==
    /\ ~Printed(SUMMARY_HEADER)
    /\ ~Printed(SUCCESS_BANNER)
    /\ ~Printed(FAILURE_BANNER)
    /\ \A t \in SCENARIO_IDS, o \in {"PASS", "FAIL", "CRASH", "UNKNOWN"} :
          ~Printed(SummaryLine(t, o))

\* ------------------------------------------------------------------------
\* C1
\* ------------------------------------------------------------------------

\* C1: no scenario-run process is started unless the compile process has
\* already terminated with exit status zero; the compile command is invoked
\* once per run and its status is evaluated once, before the scenario loop.
C1_CompileGatesScenarios ==
    /\ \A k \in DOMAIN procs :
          IsScenarioRun(procs[k].cmd) =>
             /\ k > 1
             /\ procs[1].cmd = IV_COMPILE_CMD
             /\ procs[1].st = "exited"
             /\ procs[1].rc = 0
    /\ Count([k \in DOMAIN procs |-> procs[k].cmd], IV_COMPILE_CMD)
          = IF pc = "start" THEN 0 ELSE 1
    /\ Count(console, COMPILE_OK_MSG) + Count(console, COMPILE_FAILED_MSG)
          = IF CompileExited THEN 1 ELSE 0
    /\ (Len(procs) >= 2 \/ pc = "loop") => Printed(COMPILE_OK_MSG)

C1_Witness ==
    /\ Len(procs) = 3
    /\ IsScenarioRun(procs[3].cmd)
    /\ procs[3].st = "running"

\* ------------------------------------------------------------------------
\* C2
\* ------------------------------------------------------------------------

\* The Reporter has read results.
ReporterRan == pc \in {"banner", "done"}

AllScenariosRan ==
    /\ Len(procs) = Len(TEST_CASES) + 1
    /\ \A k \in DOMAIN TEST_CASES :
          ProcOf(k).cmd = RunCmd(TEST_CASES[k]) /\ ProcOf(k).st = "exited"

\* C3 as stated: after a successful compile nothing local to a scenario,
\* a failure to write its artifact included, keeps the run from executing
\* every scenario and emitting the summary.
C3_NothingLocalHaltsRun ==
    (CompileSucceeded /\ RunOver) =>
       /\ pc = "done"
       /\ AllScenariosRan
       /\ Printed(SUMMARY_HEADER)

\* C3 amended: after a successful compile the scenarios run in list order
\* and the run never stops short of the summary because a scenario exited
\* non-zero, printed a fail marker or printed no marker; the one local event
\* that ends the run early is a failed artifact write, whose OSError is not
\* caught.
C3_OnlyWriteFailureHaltsRun ==
    /\ (CompileSucceeded /\ ~RunOver) => ENABLED Next
    /\ (CompileSucceeded /\ RunOver) =>
          \/ /\ pc = "done"
             /\ AllScenariosRan
             /\ Printed(SUMMARY_HEADER)
          \/ /\ pc = "aborted"
             /\ exc = "OSError"
             /\ procs[Len(procs)].rc = 0
             /\ Len(written) < Len(procs) - 1
    /\ \A k \in 2..Len(procs) :
          /\ k - 1 <= Len(TEST_CASES)
          /\ procs[k].cmd = RunCmd(TEST_CASES[k - 1])
    /\ pc = "loop" => Len(procs) = i

C3_Witness ==
    /\ pc = "done"
    /\ Len(TEST_CASES) = 2
    /\ OutcomeOf(ProcOf(1)) = "CRASH"
    /\ OutcomeOf(ProcOf(2)) = "UNKNOWN"
    /\ Printed(SUMMARY_HEADER)

\* ------------------------------------------------------------------------
\* C4
\* ------------------------------------------------------------------------

\* C4: when a scenario whose process exited zero has been classified, the
\* Outcome recorded for it is the ordered rule set applied to the captured
\* text: PASS on a pass marker, else FAIL on a fail marker, else UNKNOWN; a
\* text with both kinds of marker gives PASS, a text with none never PASS.
C4_RecordedOutcomeFollowsRuleSet ==
    (IterationDone /\ procs[Len(procs)].rc = 0) =>
       LET o == DictGet(results, TEST_CASES[i - 1])
       IN /\ HasKey(results, TEST_CASES[i - 1])
          /\ o = RuleSet(sim_output)
          /\ (HasPassMarker(sim_output) /\ HasFailMarker(sim_output))
                => o = "PASS"
          /\ (~HasPassMarker(sim_output) /\ ~HasFailMarker(sim_output))
                => o = "UNKNOWN"
          /\ (In("ERROR_CODE", sim_output) /\ ~HasPassMarker(sim_output))
                => o = "FAIL"

C4_Witness ==
    /\ IterationDone
    /\ procs[Len(procs)].rc = 0
    /\ HasPassMarker(sim_output)
    /\ HasFailMarker(sim_output)
    /\ DictGet(results, TEST_CASES[i - 1]) = "PASS"

\* ------------------------------------------------------------------------
\* C5
\* ------------------------------------------------------------------------

\* C5: every completed iteration records an Outcome; it is CRASH exactly
\* when the process exited non-zero, whatever its text, and one of PASS,
\* FAIL, UNKNOWN exactly when the process exited zero.
C5_CrashPathExcludesTextPath ==
    IterationDone =>
       /\ HasKey(results, TEST_CASES[i - 1])
       /\ (procs[Len(procs)].rc # 0)
             <=> (DictGet(results, TEST_CASES[i - 1]) = "CRASH")
       /\ (procs[Len(procs)].rc = 0)
             <=> (DictGet(results, TEST_CASES[i - 1])
                     \in {"PASS", "FAIL", "UNKNOWN"})

C5_Witness ==
    /\ IterationDone
    /\ procs[Len(procs)].rc # 0
    /\ HasPassMarker(procs[Len(procs)].out)
    /\ DictGet(results, TEST_CASES[i - 1]) = "CRASH"

\* ------------------------------------------------------------------------
\* C6
\* ------------------------------------------------------------------------

\* C6: a run that has emitted its verdict printed the success banner iff
\* every recorded Outcome is PASS and the failure banner iff some recorded
\* Outcome is FAIL, CRASH or UNKNOWN: exactly one banner, the success banner
\* for an empty results; before the verdict no banner is printed.
C6_BannerMatchesResults ==
    /\ pc = "done" =>
          /\ Count(console, SUCCESS_BANNER)
                = IF \A j \in DOMAIN results : results[j][2] = "PASS"
                  THEN 1 ELSE 0
          /\ Count(console, FAILURE_BANNER)
                = IF \E j \in DOMAIN results :
                        results[j][2] \in {"FAIL", "CRASH", "UNKNOWN"}
                  THEN 1 ELSE 0
          /\ Count(console, SUCCESS_BANNER) + Count(console, FAILURE_BANNER)
                = 1
    /\ pc # "done" => ~Printed(SUCCESS_BANNER) /\ ~Printed(FAILURE_BANNER)

C6_Witness ==
    /\ pc = "done"
    /\ Len(results) = 2
    /\ results[1][2] = "FAIL"
    /\ results[2][2] = "PASS"
    /\ Printed(FAILURE_BANNER)

\* ------------------------------------------------------------------------
\* C7
\* ------------------------------------------------------------------------

\* C7: once the compile process has exited non-zero, results has no entry,
\* no file has been written and the directory is as the run found it.
C7_CompileFailureWritesNothing ==
    CompileFailedRun =>
       /\ results = << >>
       /\ written = << >>
       /\ files = files0
       /\ Len(procs) = 1

C7_Witness ==
    /\ CompileFailedRun
    /\ RunOver
    /\ Len(TEST_CASES) = 2
    /\ DOMAIN files0 = {LogName(TEST_CASES[1])}

\* ------------------------------------------------------------------------
\* C8
\* ------------------------------------------------------------------------

\* C8: once the compile process has exited non-zero the run is over in
\* compile_failed with nothing left to do: the failure message was printed
\* once, followed by the compiler's error stream as it was, the compile ran
\* once, and no summary table and no banner was printed.
C8_CompileFailureIsTerminal ==
    CompileFailedRun =>
       /\ pc = "compile_failed"
       /\ RunOver
       /\ ~ENABLED Next
       /\ Count(console, COMPILE_FAILED_MSG) = 1
       /\ console[Len(console) - 1] = COMPILE_FAILED_MSG
       /\ console[Len(console)] = procs[1].err
       /\ Count([k \in DOMAIN procs |-> procs[k].cmd], IV_COMPILE_CMD) = 1
       /\ NoSummaryPrinted

C8_Witness ==
    /\ pc = "compile_failed"
    /\ procs[1].rc = 127
    /\ console[Len(console)] = "/bin/sh: 1: iverilog: not found\n"

\* ------------------------------------------------------------------------
\* C9
\* ------------------------------------------------------------------------

\* A failure of the taxonomy has occurred in this run.
FailureOccurred ==
    \/ CompileFailedRun
    \/ exc = "OSError"
    \/ \E k \in 2..Len(procs) :
          procs[k].st = "exited" /\ OutcomeOf(procs[k]) # "PASS"

NonPassLinePrinted ==
    \E t \in SCENARIO_IDS, o \in {"FAIL", "CRASH", "UNKNOWN"} :
        Printed(SummaryLine(t, o))

\* C9 as stated: every run in which a failure of the taxonomy occurred ends
\* with a final table holding a non-Pass entry and with the failure banner.
C9_EveryFailureReachesTable ==
    (RunOver /\ FailureOccurred) =>
       /\ NonPassLinePrinted
       /\ Printed(FAILURE_BANNER)

\* C9 amended: a crash, fail or unknown that is the Outcome of the last
\* entry of its identifier, in a run that reaches the end of the summary, is
\* printed as that identifier's line of the table and the run prints the
\* failure banner and not the success banner; a compile failure and a
\* failed artifact write end the run with no table and no banner.
C9_ScenarioFailuresReachTable ==
    /\ pc = "done" =>
          \A k \in DOMAIN TEST_CASES :
             (OutcomeOf(ProcOf(k)) # "PASS" /\ LastIdx(TEST_CASES[k]) = k)
                => /\ Printed(SummaryLine(TEST_CASES[k], OutcomeOf(ProcOf(k))))
                   /\ Printed(FAILURE_BANNER)
                   /\ ~Printed(SUCCESS_BANNER)
    /\ (CompileFailedRun \/ exc = "OSError") => NoSummaryPrinted

C9_Witness ==
    /\ pc = "done"
    /\ Len(TEST_CASES) = 2
    /\ OutcomeOf(ProcOf(1)) = "PASS"
    /\ OutcomeOf(ProcOf(2)) = "UNKNOWN"
    /\ Printed(SummaryLine(TEST_CASES[2], "UNKNOWN"))
    /\ Printed(FAILURE_BANNER)

\* ------------------------------------------------------------------------
\* C10
\* ------------------------------------------------------------------------

\* C10: a run that compiled and reached the end of the summary has written
\* log_<test>.txt for every configured test, whatever its Outcome.
C10_EveryTestHasLog ==
    pc = "done" =>
       \A k \in DOMAIN TEST_CASES :
          \E w \in DOMAIN written : written[w][1] = LogName(TEST_CASES[k])

\* ------------------------------------------------------------------------
\* C11
\* ------------------------------------------------------------------------

\* C11: after a run that compiled and reached the end of the summary, the
\* artifact of every configured scenario exists and holds the text captured
\* from an invocation of that scenario in this run, not text of an earlier
\* run.
C11_ArtifactsHoldThisRunsText ==
    pc = "done" =>
       \A k \in DOMAIN TEST_CASES :
          /\ LogName(TEST_CASES[k]) \in DOMAIN files
          /\ \E w \in DOMAIN written :
                written[w] = << LogName(TEST_CASES[k]),
                                files[LogName(TEST_CASES[k])] >>

\* ------------------------------------------------------------------------
\* C12
\* ------------------------------------------------------------------------

\* C12: right after the write the artifact of the scenario holds exactly the
\* captured text handed to the write, whatever the file held before, and the
\* Outcome then recorded is the rule set applied to that same text.
C12_ArchiveRoundTrip ==
    /\ pc = "classify" =>
          /\ LogName(TEST_CASES[i]) \in DOMAIN files
          /\ files[LogName(TEST_CASES[i])] = sim_output
          /\ written[Len(written)] = << LogName(TEST_CASES[i]), sim_output >>
          /\ \A n \in DOMAIN files0 :
                n # LogName(TEST_CASES[i]) /\ (\A w \in DOMAIN written :
                                                  written[w][1] # n)
                   => n \in DOMAIN files /\ files[n] = files0[n]
    /\ (IterationDone /\ procs[Len(procs)].rc = 0) =>
          /\ LogName(TEST_CASES[i - 1]) \in DOMAIN files
          /\ DictGet(results, TEST_CASES[i - 1])
                = RuleSet(files[LogName(TEST_CASES[i - 1])])

C12_Witness ==
    /\ pc = "classify"
    /\ LogName(TEST_CASES[i]) \in DOMAIN files0
    /\ files0[LogName(TEST_CASES[i])] # sim_output
    /\ sim_output # ""
    /\ files[LogName(TEST_CASES[i])] = sim_output

\* ------------------------------------------------------------------------
\* C13
\* ------------------------------------------------------------------------

\* The scenario process that exited last.
LastProc == procs[Len(procs)]

\* C13 as stated: the captured text holds what the process wrote to its
\* error stream, so a marker written there is in the captured text.
C13_CapturedTextHoldsStderr ==
    pc \in {"archive", "classify"} =>
       \A m \in PASS_MARKERS \cup FAIL_MARKERS :
          In(m, LastProc.err) => In(m, sim_output)

\* C13 amended: the captured text, which is the text archived and
\* classified, is the standard output of the process alone; what the process
\* writes to its error stream is neither archived nor classified.
C13_CapturedTextIsStdoutOnly ==
    /\ pc \in {"archive", "classify"} => sim_output = LastProc.out
    /\ (IterationDone /\ LastProc.rc = 0) =>
          /\ files[LogName(TEST_CASES[i - 1])] = LastProc.out
          /\ DictGet(results, TEST_CASES[i - 1]) = RuleSet(LastProc.out)

C13_Witness ==
    /\ IterationDone
    /\ LastProc.rc = 0
    /\ HasPassMarker(LastProc.err)
    /\ ~HasPassMarker(LastProc.out)
    /\ DictGet(results, TEST_CASES[i - 1]) = "UNKNOWN"
    /\ files[LogName(TEST_CASES[i - 1])] = ""

\* ------------------------------------------------------------------------
\* C14
\* ------------------------------------------------------------------------

C15_OneProcessAtATime ==
    /\ Cardinality({k \in DOMAIN procs : procs[k].st = "running"}) <= 1
    /\ \A k \in DOMAIN procs : procs[k].st = "running" => k = Len(procs)
    /\ \A k \in DOMAIN procs :
          IF k = 1 THEN ~IsScenarioRun(procs[k].cmd)
          ELSE /\ k - 1 <= Len(TEST_CASES)
               /\ procs[k].cmd = RunCmd(TEST_CASES[k - 1])

C15_Witness ==
    /\ Len(procs) = 3
    /\ TEST_CASES = << "CRC_TEST", "DMA_TEST" >>
    /\ procs[2].st = "exited"
    /\ procs[2].rc # 0
    /\ procs[3].st = "running"
    /\ procs[3].cmd = RunCmd("DMA_TEST")

\* ------------------------------------------------------------------------
\* C16
\* ------------------------------------------------------------------------

\* C16: the compile command is invoked once; the number of scenario
\* processes never exceeds the number of entries the loop has reached, so no
\* entry is run a second time; when the Reporter runs, every entry has had
\* exactly one process and the Reporter starts none.
C16_NoRetries ==
    /\ procs # << >> => ~IsScenarioRun(procs[1].cmd)
    /\ Cardinality({k \in DOMAIN procs : ~IsScenarioRun(procs[k].cmd)}) <= 1
    /\ Len(procs) - 1 <= i
    /\ pc \in {"loop", "banner", "done"} => Len(procs) = i
    /\ ReporterRan =>
          /\ Len(procs) = Len(TEST_CASES) + 1
          /\ \A k \in DOMAIN procs : procs[k].st = "exited"

C16_Witness ==
    /\ pc = "done"
    /\ Len(TEST_CASES) = 2
    /\ OutcomeOf(ProcOf(1)) = "CRASH"
    /\ OutcomeOf(ProcOf(2)) = "FAIL"
    /\ Len(procs) = 3

\* ------------------------------------------------------------------------
\* C17
\* ------------------------------------------------------------------------

StatusLinesPrinted ==
    Count(console, STATUS_PASSED) + Count(console, STATUS_FAILED)
       + Count(console, STATUS_UNKNOWN)

\* C17: an Outcome of PASS, FAIL or UNKNOWN is recorded, and a status line
\* printed, only for a text that has already been written to the scenario's
\* artifact in this run.
C17_WriteBeforeClassification ==
    /\ \A j \in DOMAIN results :
          results[j][2] \in {"PASS", "FAIL", "UNKNOWN"} =>
             \E w \in DOMAIN written :
                /\ written[w][1] = LogName(results[j][1])
                /\ RuleSet(written[w][2]) = results[j][2]
    /\ StatusLinesPrinted
          = IF pc = "classify" THEN Len(written) - 1 ELSE Len(written)

C17_Witness ==
    /\ IterationDone
    /\ DictGet(results, TEST_CASES[i - 1]) = "FAIL"
    /\ written[Len(written)] = << LogName(TEST_CASES[i - 1]), sim_output >>
    /\ console[Len(console)] = STATUS_FAILED

\* ------------------------------------------------------------------------
\* C18
\* ------------------------------------------------------------------------

\* C18 as stated: once results holds an Outcome for an identifier, no step
\* changes or removes it.
C18_OutcomesImmutable ==
    [][\A id \in SCENARIO_IDS :
          HasKey(results, id) =>
             /\ HasKey(results', id)
             /\ DictGet(results', id) = DictGet(results, id)]_vars

\* C18 amended: results holds an Outcome only for identifiers of entries the
\* loop has completed; no step removes an entry, and the only step that
\* changes one is the completion of a later entry of TEST_CASES carrying the
\* same identifier.  For pairwise distinct identifiers every Outcome is set
\* once and never changes.
C18_OutcomesChangeOnlyOnRepeat ==
    /\ [](\A id \in SCENARIO_IDS :
             HasKey(results, id) =>
                \E k \in 1..(i - 1) : TEST_CASES[k] = id)
    /\ [][\A id \in SCENARIO_IDS :
             HasKey(results, id) =>
                /\ HasKey(results', id)
                /\ DictGet(results', id) # DictGet(results, id) =>
                      /\ pc \in {"running", "classify"}
                      /\ TEST_CASES[i] = id
                      /\ \E m \in 1..(i - 1) : TEST_CASES[m] = id]_vars

C18_Witness ==
    /\ pc = "done"
    /\ TEST_CASES = << "DMA_TEST", "CRC_TEST" >>
    /\ results = << << "DMA_TEST", "UNKNOWN" >>, << "CRC_TEST", "PASS" >> >>

\* ------------------------------------------------------------------------
\* C19
\* ------------------------------------------------------------------------

\* The argument vector the shell (shell=True) makes of a command line that
\* holds no quoting: the words between runs of spaces.
CharAt(s, k) == SubSeq(s, k, k)

\* Positions at which a word starts, and the position at which the word
\* starting at k ends.
WordStarts(s) ==
    {k \in 1..Len(s) :
        CharAt(s, k) # " " /\ (k = 1 \/ CharAt(s, k - 1) = " ")}

WordEnd(s, k) ==
    CHOOSE e \in k..Len(s) :
        /\ e = Len(s) \/ CharAt(s, e + 1) = " "
        /\ \A m \in k..e : CharAt(s, m) # " "

ShellWords(s) ==
    LET starts == WordStarts(s)
    IN [j \in 1..Cardinality(starts) |->
           LET k == CHOOSE k \in starts :
                       Cardinality({m \in starts : m < k}) = j - 1
           IN SubSeq(s, k, WordEnd(s, k))]

NoSpace(s) == ~In(" ", s)

COMPILE_ARGV_HEAD == << "iverilog", "-g2005-sv", "-o", "soc_sim" >>

\* C19 as stated: for every unit list the file arguments of the compile
\* command are the configured units in order, and for every identifier the
\* run command is vvp soc_sim with that identifier as the value of TESTNAME.
C19_CommandsCarryConfiguration ==
    /\ procs # << >> =>
          ShellWords(procs[1].cmd) = COMPILE_ARGV_HEAD \o COMPILE_ORDER
    /\ \A k \in 2..Len(procs) :
          ShellWords(procs[k].cmd)
             = << "vvp", "soc_sim", "+TESTNAME=" \o TEST_CASES[k - 1] >>

\* C19 amended: the same, for unit lists whose paths and for identifiers
\* that hold no space (nor anything else the shell treats specially): the
\* units are joined by single spaces without quoting, so a path or an
\* identifier with a space in it reaches the tool as several arguments.
C19_CommandsCarryPlainConfiguration ==
    /\ (procs # << >> /\ \A u \in DOMAIN COMPILE_ORDER :
                            NoSpace(COMPILE_ORDER[u])) =>
          ShellWords(procs[1].cmd) = COMPILE_ARGV_HEAD \o COMPILE_ORDER
    /\ \A k \in 2..Len(procs) :
          NoSpace(TEST_CASES[k - 1]) =>
             ShellWords(procs[k].cmd)
                = << "vvp", "soc_sim", "+TESTNAME=" \o TEST_CASES[k - 1] >>
    /\ (procs # << >> /\ \E u \in DOMAIN COMPILE_ORDER :
                            ~NoSpace(COMPILE_ORDER[u])) =>
          Len(ShellWords(procs[1].cmd))
             > Len(COMPILE_ARGV_HEAD) + Len(COMPILE_ORDER)

C19_Witness ==
    /\ Len(procs) = 2
    /\ COMPILE_ORDER = << "tb/tb_risc_soc.sv", "tb/tb_risc_soc.sv" >>
    /\ TEST_CASES = << "CRC_TEST" >>
    /\ ShellWords(procs[1].cmd)
          = COMPILE_ARGV_HEAD \o << "tb/tb_risc_soc.sv", "tb/tb_risc_soc.sv" >>
    /\ ShellWords(procs[2].cmd) = << "vvp", "soc_sim", "+TESTNAME=CRC_TEST" >>

\* ------------------------------------------------------------------------
\* C20
\* ------------------------------------------------------------------------

\* C20: a run that keeps going ends: in compile_failed after a non-zero
\* compile exit, or in done, or, when an artifact write fails, with the
\* OSError that left main().  done is entered only from the banner step,
\* the banner step only from the end of the loop, and by then every entry of
\* TEST_CASES has been run, in order; compile_failed and done are final.
C20_RunTerminates ==
    /\ <>(pc \in {"compile_failed", "done"} \/ exc = "OSError")
    /\ [](pc = "compile_failed" => CompileFailedRun /\ Len(procs) = 1)
    /\ [](pc \in {"banner", "done"} =>
             CompileSucceeded /\ AllScenariosRan /\ Printed(SUMMARY_HEADER))
    /\ [](pc \in {"compile_failed", "done"} => ~ENABLED Next)
    /\ [][/\ pc' = "done" => pc = "banner"
          /\ pc' = "banner" => pc = "loop" /\ i = Len(TEST_CASES) + 1
          /\ pc' = "loop" => pc \in {"compiling", "running", "classify"}
          /\ pc' = "compile_failed" => pc = "compiling"]_vars

C20_Witness ==
    /\ pc = "done"
    /\ Len(TEST_CASES) = 2
    /\ exit_code = << 0 >>
    /\ OutcomeOf(ProcOf(1)) = "FAIL"
    /\ OutcomeOf(ProcOf(2)) = "PASS"

\* ---------------------------------------------------------------------------
\* C21
\* ---------------------------------------------------------------------------

\* The position of the summary header in the console.
HeaderAt == CHOOSE h \in DOMAIN console : console[h] = SUMMARY_HEADER

\* ln is a table line for (name, outcome): two spaces, the name, spaces up to
\* a field of NAME_WIDTH characters (none if the name is longer), " : " and
\* the outcome.
IsLineFor(ln, name, outcome) ==
    LET field == IF Len(name) > NAME_WIDTH THEN Len(name) ELSE NAME_WIDTH
    IN  /\ Len(ln) = 2 + field + 3 + Len(outcome)
        /\ SubSeq(ln, 1, 2 + Len(name)) = "  " \o name
        /\ \A k \in (2 + Len(name) + 1)..(2 + field) : CharAt(ln, k) = " "
        /\ SubSeq(ln, 2 + field + 1, Len(ln)) = " : " \o outcome

\* Once the Reporter has run, the console holds the summary header once,
\* followed by the rule, then exactly one line per entry of results in the
\* order of results, the j-th line carrying the j-th identifier and Outcome,
\* then the separator.
C21_TableShowsResults ==
    ReporterRan =>
        /\ Count(console, SUMMARY_HEADER) = 1
        /\ Len(console) >= HeaderAt + 2 + Len(results)
        /\ console[HeaderAt + 1] = RULE
        /\ \A j \in 1..Len(results) :
              IsLineFor(console[HeaderAt + 1 + j], results[j][1], results[j][2])
        /\ console[HeaderAt + 2 + Len(results)] = DASHES

\* A step of the Reporter (the one that prints the table, the one that
\* prints the banner) changes neither results nor any file.
C21_ReporterStepFrame ==
    pc' \in {"banner", "done"} =>
        /\ results' = results
        /\ files' = files
        /\ written' = written

\* C21: the Reporter is a pure terminal projection of the RunResultSet.  The
\* summary prints exactly one name / outcome line per entry of results, in
\* insertion order, each line showing the Outcome recorded for its
\* identifier, and the Reporter's steps leave results and every file
\* unchanged.
C21_ReporterIsProjection ==
    /\ [] C21_TableShowsResults
    /\ [][C21_ReporterStepFrame]_vars

\* A finished run whose table has two lines with different outcomes.
C21_Witness ==
    /\ pc = "done"
    /\ Len(results) = 2
    /\ results[1][2] # results[2][2]
    /\ IsLineFor(console[HeaderAt + 2], results[1][1], results[1][2])
    /\ IsLineFor(console[HeaderAt + 3], results[2][1], results[2][2])

\* ---------------------------------------------------------------------------
\* C22
\* ---------------------------------------------------------------------------

\* The verdict lines printed by the loop: one status line or one crash line
\* per completed iteration.
VerdictLinesPrinted ==
    StatusLinesPrinted
      + Cardinality({k \in DOMAIN console :
                        \E t \in SCENARIO_IDS : console[k] = CrashMsg(t)})

\* A step that leaves the archive step without having written the artifact:
\* the open or the write failed.
WriteFailedStep == pc = "archive" /\ written' = written /\ pc' # pc

\* A failed write raises: the exception leaves main(), nothing is recorded
\* or printed for the scenario by that step.
C22_FailedWriteRaises ==
    WriteFailedStep =>
        /\ exc' = "OSError"
        /\ pc' = "aborted"
        /\ exit_code' = << 1 >>
        /\ results' = results
        /\ console' = console
        /\ i' = i

\* The run that ended with the escaped exception: exit status 1, distinct
\* from the status 0 of Done; no further step; the console ends with the
\* progress line of the scenario, no verdict for it, no table, no banner;
\* results holds entries of earlier list entries only.
C22_AbortedRunIsVisible ==
    exc = "OSError" =>
        /\ pc = "aborted"
        /\ exit_code = << 1 >>
        /\ ~ENABLED Next
        /\ LastProc.cmd = RunCmd(TEST_CASES[i])
        /\ LastProc.rc = 0
        /\ console[Len(console)] = RunningMsg(TEST_CASES[i])
        /\ VerdictLinesPrinted = i - 1
        /\ \A j \in DOMAIN results :
              \E m \in 1..(i - 1) : TEST_CASES[m] = results[j][1]
        /\ NoSummaryPrinted

\* C22: a failure to write a scenario's artifact is surfaced, never
\* swallowed.  When the write of log_<ScenarioID>.txt fails, no Pass, Fail or
\* Unknown is recorded for the scenario, the run ends with an uncaught
\* OSError and exit status 1, which is not Done, and the success banner is
\* never printed.
C22_WriteFailureSurfaced ==
    /\ [][C22_FailedWriteRaises]_vars
    /\ [] C22_AbortedRunIsVisible
    /\ [](pc = "done" => exc = "")

\* The second scenario's write failed after the first one was recorded.
C22_Witness ==
    /\ exc = "OSError"
    /\ i = 2
    /\ Len(results) = 1
    /\ HasPassMarker(sim_output)
    /\ ~Printed(STATUS_PASSED)
    /\ exit_code = << 1 >>

\* ---------------------------------------------------------------------------
\* C23
\* ---------------------------------------------------------------------------

\* The process invoked for the k-th list entry exited zero and its captured
\* text holds a pass marker.
EntryPassed(k) ==
    /\ Len(procs) >= k + 1
    /\ ProcOf(k).cmd = RunCmd(TEST_CASES[k])
    /\ ProcOf(k).st = "exited"
    /\ ProcOf(k).rc = 0
    /\ HasPassMarker(ProcOf(k).out)

\* C23 as stated: the success banner is printed only if the compile process
\* exited zero and, for every entry of the list, the process invoked for
\* that entry exited zero with a pass marker in its captured text.
C23_SuccessOnlyIfEveryEntryPassed ==
    Printed(SUCCESS_BANNER) =>
        /\ CompileSucceeded
        /\ \A k \in 1..Len(TEST_CASES) : EntryPassed(k)

\* C23 (amended): the success banner is printed only if the compile process
\* exited zero and, for every identifier of the list, the process invoked for
\* the last entry carrying that identifier exited zero with a pass marker in
\* its captured text; when the identifiers are pairwise distinct this is
\* every entry of the list.
C23_SuccessOnlyIfLastEntriesPassed ==
    Printed(SUCCESS_BANNER) =>
        /\ CompileSucceeded
        /\ \A k \in 1..Len(TEST_CASES) :
              LastIdx(TEST_CASES[k]) = k => EntryPassed(k)
        /\ (\A k \in 1..Len(TEST_CASES) : FirstIdx(TEST_CASES[k]) = k)
              => \A k \in 1..Len(TEST_CASES) : EntryPassed(k)

\* Two different scenarios both passed and the success banner was printed.
C23_Witness ==
    /\ Printed(SUCCESS_BANNER)
    /\ Len(TEST_CASES) = 2
    /\ TEST_CASES[1] # TEST_CASES[2]
    /\ EntryPassed(1)
    /\ EntryPassed(2)

\* ---------------------------------------------------------------------------
\* C24
\* ---------------------------------------------------------------------------

\* The three ends of a run that main() reaches by returning.
EndedCompileFailed == pc = "compile_failed"
EndedDoneFailure == pc = "done" /\ Printed(FAILURE_BANNER)
EndedDoneSuccess == pc = "done" /\ Printed(SUCCESS_BANNER)

\* C24: the exit status of the orchestrator carries no verdict.  A run that
\* ends in CompileFailed, a run that ends in Done with the failure banner and
\* a run that ends in Done with the success banner all finish with the same
\* exit status, the 0 of an interpreter whose main() returned.
C24_ExitStatusCarriesNoVerdict ==
    /\ (EndedCompileFailed \/ EndedDoneFailure \/ EndedDoneSuccess)
          => exit_code = << 0 >>
    /\ pc = "done" => (EndedDoneFailure \/ EndedDoneSuccess)
    /\ exit_code = << 0 >> => pc \in {"compile_failed", "done"}

\* A run that printed the failure banner after a crash and exited with 0.
C24_Witness ==
    /\ EndedDoneFailure
    /\ \E j \in DOMAIN results : results[j][2] = "CRASH"
    /\ exit_code = << 0 >>

\* ---------------------------------------------------------------------------
\* C25
\* ---------------------------------------------------------------------------

\* The run is inside the scenario loop.
InLoop == pc \in {"loop", "running", "archive", "classify"}

\* The identifiers of results, in the order of results.
KeysOf(d) == [j \in DOMAIN d |-> d[j][1]]

\* The number of scenario processes that have terminated in this run.
TerminatedScenarios ==
    Cardinality({k \in 2..Len(procs) : procs[k].st = "exited"})

\* The identifiers of TEST_CASES are pairwise distinct.
DistinctIds == \A k \in DOMAIN TEST_CASES : FirstIdx(TEST_CASES[k]) = k

\* C25 as stated: at every point of the loop, results holds entries exactly
\* for the scenarios whose process has already terminated, a prefix of the
\* list; none for the scenario in flight, for a later one, or for an
\* identifier that is not in the list.
C25_ResultsAreTerminatedPrefix ==
    InLoop =>
        /\ TerminatedScenarios <= Len(TEST_CASES)
        /\ KeysOf(results) = SubSeq(TEST_CASES, 1, TerminatedScenarios)
        /\ pc = "running" => ~HasKey(results, TEST_CASES[i])

\* C25 (amended): at every point of the run, results holds entries exactly
\* for the identifiers of the completed iterations, the list entries
\* 1..i-1, ordered by first occurrence.  The terminated processes are those
\* of the completed iterations plus, between a zero exit and the end of the
\* classification (or for good after a failed write), the current one, which
\* has no entry of its own yet.  No identifier outside the list is held.
\* With pairwise distinct identifiers results is the prefix 1..i-1 of the
\* list itself and holds nothing for the scenario in flight or a later one.
C25_ResultsAreCompletedPrefix ==
    /\ i \in 1..(Len(TEST_CASES) + 1)
    /\ TerminatedScenarios =
          (i - 1) + (IF pc \in {"archive", "classify", "aborted"} THEN 1 ELSE 0)
    /\ {results[j][1] : j \in DOMAIN results}
          = {TEST_CASES[k] : k \in 1..(i - 1)}
    /\ \A a, b \in DOMAIN results :
          a < b => FirstIdx(results[a][1]) < FirstIdx(results[b][1])
    /\ \A j \in DOMAIN results : results[j][1] \in SCENARIO_IDS
    /\ DistinctIds =>
          /\ KeysOf(results) = SubSeq(TEST_CASES, 1, i - 1)
          /\ \A k \in i..Len(TEST_CASES) : ~HasKey(results, TEST_CASES[k])

\* The second of two different scenarios is in flight, results holds the
\* first one only.
C25_Witness ==
    /\ pc = "running"
    /\ i = 2
    /\ DistinctIds
    /\ KeysOf(results) = << TEST_CASES[1] >>
    /\ ~HasKey(results, TEST_CASES[2])
    /\ TerminatedScenarios = 1

====
